---------------------------- MODULE Spec2Model ----------------------------
(***************************************************************************)
(* A model of NerfNetwork (include/neural-graphics-primitives/             *)
(* nerf_network.h): the composite of two encodings (position, direction)   *)
(* and three networks (density, uv, rgb) over a packed rgb-input buffer.   *)
(*                                                                         *)
(* Device buffers are flat arrays indexed from 0, exactly as the kernels   *)
(* and the cudaMemset/cudaMemcpy calls of the source address them; a       *)
(* matrix element (row r, column i) of an m x n matrix lives at            *)
(*   i * m + r   in the AoS (column-major, tcnn::CM) layout and at         *)
(*   r * n + i   in the SoA (row-major, tcnn::RM) layout.                  *)
(* The encodings and networks themselves are external (tiny-cuda-nn); they *)
(* are modelled as fixed deterministic functions of their input and of the *)
(* parameter set in use, linear for the networks, which write every padded *)
(* row of the matrix (or row slice) they are handed, through its layout.   *)
(* Memory that the source allocates and does not initialise holds an       *)
(* arbitrary value, drawn from Uninit at each call.                        *)
(***************************************************************************)
EXTENDS Integers, Sequences, FiniteSets, TLC

VARIABLES
    m_pos_encoding,             \* [padded_output_width, preferred_output_layout, n_params]
    m_dir_encoding,             \* [padded_output_width, preferred_output_layout, n_params]
    m_density_network,          \* [padded_output_width, n_params, num_forward_activations]
    m_uv_network,               \* [padded_output_width, n_params, num_forward_activations]
    m_rgb_network,              \* [padded_output_width, n_params, num_forward_activations]
    m_rgb_network_input_width,
    m_uv_network_scale,
    m_uv_grid,                  \* [alloc, n, data]: the cached UV grid
    prm,                        \* the offsets set_params_impl / initialize_params handed out
    last,                       \* the most recent call: its arguments, the buffers it
                                \* filled and what it returned
    calls                       \* the uv2texture calls of concurrent threads: where
                                \* each thread is in the function

vars == <<m_pos_encoding, m_dir_encoding, m_density_network, m_uv_network,
          m_rgb_network, m_rgb_network_input_width, m_uv_network_scale,
          m_uv_grid, prm, last, calls>>

members == <<m_pos_encoding, m_dir_encoding, m_density_network, m_uv_network,
             m_rgb_network, m_rgb_network_input_width>>

-----------------------------------------------------------------------------
(* Bounds of the model *)

\* the largest batch size (input.n()) a call is given
MaxBatch == 2

-----------------------------------------------------------------------------
(* Matrices and flat memory *)

Layouts == {"AoS", "SoA"}

\* tcnn::GPUMatrixDynamic constructed without a layout argument is column-major
DefaultLayout == "AoS"

\* values that uninitialised device memory may hold
Uninit == {0, -1}

NextMultiple(val, divisor) == ((val + divisor - 1) \div divisor) * divisor

Max(a, b) == IF a >= b THEN a ELSE b

\* flat index of element (row r, column i) of an m x n matrix
Idx(layout, m, n, r, i) == IF layout = "AoS" THEN i * m + r ELSE r * n + i

RowOf(layout, m, n, k) == IF layout = "AoS" THEN k % m ELSE k \div n

ColOf(layout, m, n, k) == IF layout = "AoS" THEN k \div m ELSE k % n

\* GPUMatrixDynamic::stride() of a matrix that owns its m x n storage
Stride(layout, m, n) == IF layout = "AoS" THEN m ELSE n

\* offset of slice_rows(r0, ..).data() from the data() of the m x n parent
SliceOffset(layout, m, n, r0) == IF layout = "AoS" THEN r0 ELSE r0 * n

\* a freshly allocated m x n buffer: nothing has written it yet
Alloc(m, n, junk) == [k \in 0 .. (m * n - 1) |-> junk]

\* cudaMemsetAsync(ptr + off, 0, cnt * sizeof(T))
Memset0(data, off, cnt) ==
    [k \in DOMAIN data |-> IF k >= off /\ k < off + cnt THEN 0 ELSE data[k]]

\* a sub-module writing rows [r0, r0 + rows) of an m x n matrix, every column
\* F[i, c] is what it writes to row r0 + c of column i
WriteRows(data, layout, m, n, r0, rows, F) ==
    [k \in DOMAIN data |->
        LET r == RowOf(layout, m, n, k)
            i == ColOf(layout, m, n, k)
        IN  IF r >= r0 /\ r < r0 + rows /\ i < n THEN F[i, r - r0] ELSE data[k]]

\* f[0] + ... + f[n - 1]
RECURSIVE SumTo(_, _)
SumTo(f, n) == IF n = 0 THEN 0 ELSE f[n - 1] + SumTo(f, n - 1)

-----------------------------------------------------------------------------
(* The sub-modules (tiny-cuda-nn encodings and networks), as the composite  *)
(* uses them.  x is the external input, one column per sample.              *)

\* the external inputs the calls are given are generated from a seed
Seeds == {0, 1}

\* column i of the external input generated from a seed: position and direction
Sample(seed, i) == [pos |-> 1 + seed + i, dir |-> 2 + 2 * seed + i]

\* m_pos_encoding->forward / inference_mixed_precision: channel c of sample i
PosEncode(seed, i, c) == 3 * Sample(seed, i).pos + c

\* the direction encoding of the direction d: its channel c
DirEncoding(d, c) == 5 * d + c

\* m_dir_encoding->forward / inference_mixed_precision: channel c of sample i
DirEncode(seed, i, c) == DirEncoding(Sample(seed, i).dir, c)

\* the three networks hold different weights
NetIndex == [density |-> 0, uv |-> 1, rgb |-> 2]

\* the weight of a network from input channel ci to (padded) output channel co.
\* Every sub-module call of one handler is given the same use_inference_params,
\* and the parameters do not change between the calls that are compared.
Weight(net, ci, co) == 1 + ((NetIndex[net] + ci + 2 * co) % 5)

\* network forward / inference: output channel co from the in_width input channels
NetForward(net, in, in_width, co) ==
    SumTo([ci \in 0 .. in_width - 1 |-> Weight(net, ci, co) * in[ci]], in_width)

\* network backward: the gradient on input channel ci from the out_width
\* channels of the gradient on its output
NetBackward(net, dOut, out_width, ci) ==
    SumTo([co \in 0 .. out_width - 1 |-> Weight(net, ci, co) * dOut[co]], out_width)

-----------------------------------------------------------------------------
(* Construction *)

NoCall == [op |-> "none"]

NoParams == [set |-> <<>>, init |-> <<>>]

NoGrid == [alloc |-> FALSE, n |-> 0, data |-> <<>>]

\* the threads that call uv2texture concurrently
Threads == {1, 2}

\* a thread that is not in uv2texture and has no work pending on its stream
IdleThread == [pc |-> "idle"]

\* no thread has called uv2texture: thread is where each thread is,
\* generations the number of times m_uv_grid was assigned, started the number
\* of calls made, overlapped whether a call began while another was running
NoCalls == [thread |-> [t \in Threads |-> IdleThread],
            generations |-> 0, started |-> 0, overlapped |-> FALSE]

\* the sub-module configurations an instance is constructed from: what
\* create_encoding / create_network report for them afterwards
BaseConfig ==
    [rgb_alignment |-> 4, dir_enc_width |-> 3, uv_padded |-> 4,
     pos_padded |-> 2, density_padded |-> 2, rgb_padded |-> 8,
     pos_layout |-> "SoA", dir_layout |-> "SoA",
     n_params |-> [density |-> 2, uv |-> 1, rgb |-> 3, pos |-> 2, dir |-> 0],
     n_act |-> [density |-> 1, uv |-> 1, rgb |-> 1],
     n_output_dims |-> [density |-> 1, uv |-> 2, rgb |-> 3]]

\* NerfNetwork::NerfNetwork: m_uv_network_scale has no initialiser, so it
\* holds whatever the storage held
NerfNetwork(cfg, scale0) ==
    /\ m_pos_encoding = [padded_output_width |-> cfg.pos_padded,
                         preferred_output_layout |-> cfg.pos_layout,
                         n_params |-> cfg.n_params.pos]
    /\ m_dir_encoding = [padded_output_width |->
                             NextMultiple(cfg.dir_enc_width, cfg.rgb_alignment),
                         preferred_output_layout |-> cfg.dir_layout,
                         n_params |-> cfg.n_params.dir]
    /\ m_density_network = [padded_output_width |-> cfg.density_padded,
                            n_params |-> cfg.n_params.density,
                            num_forward_activations |-> cfg.n_act.density,
                            n_output_dims |-> cfg.n_output_dims.density]
    /\ m_uv_network = [padded_output_width |-> cfg.uv_padded,
                       n_params |-> cfg.n_params.uv,
                       num_forward_activations |-> cfg.n_act.uv,
                       n_output_dims |-> cfg.n_output_dims.uv]
    /\ m_rgb_network = [padded_output_width |-> cfg.rgb_padded,
                        n_params |-> cfg.n_params.rgb,
                        num_forward_activations |-> cfg.n_act.rgb,
                        n_output_dims |-> cfg.n_output_dims.rgb]
    /\ m_rgb_network_input_width =
           NextMultiple(NextMultiple(cfg.dir_enc_width, cfg.rgb_alignment)
                            + cfg.uv_padded, cfg.rgb_alignment)
    /\ m_uv_network_scale = scale0
    /\ m_uv_grid = NoGrid
    /\ prm = NoParams
    /\ last = NoCall
    /\ calls = NoCalls

\* NerfNetwork::padded_output_width
padded_output_width == Max(m_rgb_network.padded_output_width, 4)

-----------------------------------------------------------------------------
(* Kernels *)

\* extract_density<T>: rgbd[i * rgbd_stride] = density[i * density_stride],
\* with density and rgbd the pointers data + doff and out + ooff
extract_density(n_elements, density_stride, rgbd_stride, density, doff, rgbd, ooff) ==
    [k \in DOMAIN rgbd |->
        IF /\ k >= ooff
           /\ (k - ooff) % rgbd_stride = 0
           /\ (k - ooff) \div rgbd_stride < n_elements
        THEN density[doff + ((k - ooff) \div rgbd_stride) * density_stride]
        ELSE rgbd[k]]

\* extract_uv<T>: output[i * output_stride] = uv[i * uv_stride]
extract_uv(n_elements, uv_stride, output_stride, uv, uoff, output, ooff) ==
    [k \in DOMAIN output |->
        IF /\ k >= ooff
           /\ (k - ooff) % output_stride = 0
           /\ (k - ooff) \div output_stride < n_elements
        THEN uv[uoff + ((k - ooff) \div output_stride) * uv_stride]
        ELSE output[k]]

\* NerfNetwork::fill_unused_rgb_input on the buffer at ptr
fill_unused_rgb_input(ptr, batch_size) ==
    LET fill_zero_offset == (m_dir_encoding.padded_output_width + 2) * batch_size
        fill_zero_size == (m_uv_network.padded_output_width - 2) * batch_size
    IN  Memset0(ptr, fill_zero_offset, fill_zero_size)

-----------------------------------------------------------------------------
(* Inference and forward *)

\* NerfNetwork::inference_mixed_precision_impl on a batch of batch_size
\* samples; output is the caller's padded_output_width() x batch_size matrix
inference_mixed_precision_impl(batch_size, seed, out_layout, junk) ==
    LET PW == m_pos_encoding.padded_output_width
        pl == m_pos_encoding.preferred_output_layout
        D  == m_dir_encoding.padded_output_width
        dl == m_dir_encoding.preferred_output_layout
        DW == m_density_network.padded_output_width
        U  == m_uv_network.padded_output_width
        RW == m_rgb_network.padded_output_width
        W  == m_rgb_network_input_width
        density_network_input ==
            WriteRows(Alloc(PW, batch_size, junk), pl, PW, batch_size, 0, PW,
                      [i \in 0 .. batch_size - 1, c \in 0 .. PW - 1 |-> PosEncode(seed, i, c)])
        \* column i of density_network_input, as the networks read it
        PosOut(i) == [c \in 0 .. PW - 1 |->
                         density_network_input[Idx(pl, PW, batch_size, c, i)]]
        density_network_output ==
            WriteRows(Alloc(DW, batch_size, junk), DefaultLayout, DW, batch_size, 0, DW,
                      [i \in 0 .. batch_size - 1, c \in 0 .. DW - 1 |->
                          NetForward("density", PosOut(i), PW, c)])
        \* uv_network_output is rows [D, D + U) of rgb_network_input
        rgb_in_uv ==
            WriteRows(Alloc(W, batch_size, junk), dl, W, batch_size, D, U,
                      [i \in 0 .. batch_size - 1, c \in 0 .. U - 1 |->
                          NetForward("uv", PosOut(i), PW, c)])
        rgb_in_filled == fill_unused_rgb_input(rgb_in_uv, batch_size)
        rgb_network_input ==
            WriteRows(rgb_in_filled, dl, W, batch_size, 0, D,
                      [i \in 0 .. batch_size - 1, c \in 0 .. D - 1 |-> DirEncode(seed, i, c)])
        \* column i of rgb_network_input, as the rgb-net reads it
        Packed(i) == [c \in 0 .. W - 1 |->
                         rgb_network_input[Idx(dl, W, batch_size, c, i)]]
        \* rgb_network_output wraps output.data() as RW x batch_size
        out_rgb ==
            WriteRows(Alloc(padded_output_width, batch_size, junk), out_layout, RW,
                      batch_size, 0, RW,
                      [i \in 0 .. batch_size - 1, c \in 0 .. RW - 1 |->
                          NetForward("rgb", Packed(i), W, c)])
        out_density ==
            extract_density(batch_size,
                IF DefaultLayout = "AoS" THEN Stride(DefaultLayout, DW, batch_size) ELSE 1,
                IF out_layout = "AoS" THEN padded_output_width ELSE 1,
                density_network_output, 0,
                out_rgb, 3 * (IF out_layout = "AoS" THEN 1 ELSE batch_size))
        out_u ==
            extract_uv(batch_size,
                IF dl = "AoS" THEN Stride(dl, W, batch_size) ELSE 1,
                IF out_layout = "AoS" THEN padded_output_width ELSE 1,
                rgb_network_input, SliceOffset(dl, W, batch_size, D),
                out_density, 4 * (IF out_layout = "AoS" THEN 1 ELSE batch_size))
        out_v ==
            extract_uv(batch_size,
                IF dl = "AoS" THEN Stride(dl, W, batch_size) ELSE 1,
                IF out_layout = "AoS" THEN padded_output_width ELSE 1,
                rgb_network_input,
                SliceOffset(dl, W, batch_size, D) + (IF dl = "AoS" THEN 1 ELSE batch_size),
                out_u, 5 * (IF out_layout = "AoS" THEN 1 ELSE batch_size))
    IN  [op |-> "inference", n |-> batch_size, seed |-> seed, junk |-> junk,
         has_output |-> TRUE,
         out_layout |-> out_layout,
         density_network_input |-> density_network_input,
         density_network_output |-> density_network_output,
         rgb_network_input |-> rgb_network_input,
         output |-> out_v]

\* NerfNetwork::forward_impl; has_output tells whether output is non-null
forward_impl(batch_size, seed, has_output, out_layout, junk) ==
    LET PW == m_pos_encoding.padded_output_width
        pl == m_pos_encoding.preferred_output_layout
        D  == m_dir_encoding.padded_output_width
        dl == m_dir_encoding.preferred_output_layout
        DW == m_density_network.padded_output_width
        U  == m_uv_network.padded_output_width
        RW == m_rgb_network.padded_output_width
        W  == m_rgb_network_input_width
        density_network_input ==
            WriteRows(Alloc(PW, batch_size, junk), pl, PW, batch_size, 0, PW,
                      [i \in 0 .. batch_size - 1, c \in 0 .. PW - 1 |-> PosEncode(seed, i, c)])
        \* column i of density_network_input, as the networks read it
        PosOut(i) == [c \in 0 .. PW - 1 |->
                         density_network_input[Idx(pl, PW, batch_size, c, i)]]
        density_network_output ==
            WriteRows(Alloc(DW, batch_size, junk), DefaultLayout, DW, batch_size, 0, DW,
                      [i \in 0 .. batch_size - 1, c \in 0 .. DW - 1 |->
                          NetForward("density", PosOut(i), PW, c)])
        rgb_in_uv ==
            WriteRows(Alloc(W, batch_size, junk), dl, W, batch_size, D, U,
                      [i \in 0 .. batch_size - 1, c \in 0 .. U - 1 |->
                          NetForward("uv", PosOut(i), PW, c)])
        rgb_in_filled == fill_unused_rgb_input(rgb_in_uv, batch_size)
        rgb_network_input ==
            WriteRows(rgb_in_filled, dl, W, batch_size, 0, D,
                      [i \in 0 .. batch_size - 1, c \in 0 .. D - 1 |-> DirEncode(seed, i, c)])
        Packed(i) == [c \in 0 .. W - 1 |->
                         rgb_network_input[Idx(dl, W, batch_size, c, i)]]
        out_rgb ==
            WriteRows(Alloc(padded_output_width, batch_size, junk), out_layout, RW,
                      batch_size, 0, RW,
                      [i \in 0 .. batch_size - 1, c \in 0 .. RW - 1 |->
                          NetForward("rgb", Packed(i), W, c)])
        out_density ==
            extract_density(batch_size,
                IF dl = "AoS" THEN Stride(DefaultLayout, DW, batch_size) ELSE 1,
                padded_output_width,
                density_network_output, 0,
                out_rgb, 3)
    IN  [op |-> "forward", n |-> batch_size, seed |-> seed, junk |-> junk,
         has_output |-> has_output, out_layout |-> out_layout,
         density_network_input |-> density_network_input,
         density_network_output |-> density_network_output,
         rgb_network_input |-> rgb_network_input,
         output |-> IF has_output THEN out_density ELSE <<>>]

\* the callers of the evaluation paths: the batch sizes and inputs they pass
\* and what the memory they allocate holds
AnyCaller == [batches |-> 1 .. MaxBatch, seeds |-> Seeds, junks |-> Uninit]

\* a caller that always passes one full batch of the same input
OneCaller == [batches |-> {MaxBatch}, seeds |-> {0}, junks |-> {0}]

InferenceBy(caller) ==
    /\ \E batch_size \in caller.batches, seed \in caller.seeds,
          out_layout \in Layouts, junk \in caller.junks :
           last' = inference_mixed_precision_impl(batch_size, seed, out_layout, junk)
    /\ UNCHANGED <<members, m_uv_network_scale, m_uv_grid, prm, calls>>

Inference == InferenceBy(AnyCaller)

\* output is null, or a matrix in one of the two layouts
ForwardBy(caller) ==
    /\ \E batch_size \in caller.batches, seed \in caller.seeds,
          output \in {"null"} \cup Layouts, junk \in caller.junks :
           last' = forward_impl(batch_size, seed, output # "null",
                                IF output = "null" THEN DefaultLayout ELSE output, junk)
    /\ UNCHANGED <<members, m_uv_network_scale, m_uv_grid, prm, calls>>

Forward == ForwardBy(AnyCaller)

\* the configurations the inference / forward checks construct instances from
EvalConfigs ==
    { [BaseConfig EXCEPT !.rgb_alignment = a, !.uv_padded = u,
                         !.dir_layout = dl] :
        a \in {2, 4}, u \in {4, 6}, dl \in Layouts }

InitEval == \E cfg \in EvalConfigs, scale0 \in {1} : NerfNetwork(cfg, scale0)

NextEval == Inference \/ Forward

SpecEval == InitEval /\ [][NextEval]_vars

-----------------------------------------------------------------------------
(* Backward *)

\* the largest value set_uv_network_scale is given
MaxScale == 2

\* extract_rgb<T>: rgb[elem * rgb_stride + dim] = rgbd[elem * output_stride + dim]
\* for i < n_elements, elem = i / 3, dim = i - elem * 3
extract_rgb(n_elements, rgb_stride, output_stride, rgbd, rgb) ==
    [k \in DOMAIN rgb |->
        IF (k % rgb_stride) < 3 /\ 3 * (k \div rgb_stride) + (k % rgb_stride) < n_elements
        THEN rgbd[(k \div rgb_stride) * output_stride + (k % rgb_stride)]
        ELSE rgb[k]]

\* add_density_gradient<T>: density[i * density_stride] += rgbd[i * rgbd_stride + 3]
add_density_gradient(n_elements, rgbd_stride, rgbd, density_stride, density) ==
    [k \in DOMAIN density |->
        IF k % density_stride = 0 /\ k \div density_stride < n_elements
        THEN density[k] + rgbd[(k \div density_stride) * rgbd_stride + 3]
        ELSE density[k]]

\* a variant of add_gradient that stores the input instead of accumulating it
add_gradient_overwrites(n_elements, input, output) ==
    [k \in DOMAIN output |->
        IF k < n_elements THEN input[k] ELSE output[k]]

\* add_gradient<T>: output[i] += input[i]
add_gradient(n_elements, input, output) ==
    [k \in DOMAIN output |->
        IF k < n_elements THEN output[k] + input[k] ELSE output[k]]

\* scale_gradient<T>: output[i] = scale * output[i], output the pointer data + off
scale_gradient(n_elements, scale, data, off) ==
    [k \in DOMAIN data |->
        IF k >= off /\ k < off + n_elements THEN scale * data[k] ELSE data[k]]

\* the loss gradient the caller passes: which of the RGB and density channels
\* carry a gradient; the channels above 3 hold whatever the caller left there
GradientKinds == {"rgb", "density", "both"}

DLoss(kind, junk, i, c) ==
    IF c < 3 THEN (IF kind = "density" THEN 0 ELSE 1 + i + c)
    ELSE IF c = 3 THEN (IF kind = "rgb" THEN 0 ELSE 2 + i)
    ELSE junk

\* a variant of backward_stream that sums the two input gradients before the
\* uv-net's backward has produced its own
backward_stream_sums_early(dir_backward, need_input_grad) ==
    <<"memset dL_drgb", "extract_rgb", "rgb_network.backward">>
    \o (IF dir_backward THEN <<"dir_encoding.backward">> ELSE <<>>)
    \o <<"memset dL_ddensity_network_output", "add_density_gradient",
         "density_network.backward">>
    \o (IF need_input_grad THEN <<"add_gradient">> ELSE <<>>)
    \o <<"fill_unused_rgb_input", "scale_gradient", "uv_network.backward">>
    \o (IF need_input_grad THEN <<"pos_encoding.backward">> ELSE <<>>)

\* what NerfNetwork::backward_impl enqueues on stream, in the order of its
\* statements
backward_stream(dir_backward, need_input_grad) ==
    <<"memset dL_drgb", "extract_rgb", "rgb_network.backward">>
    \o (IF dir_backward THEN <<"dir_encoding.backward">> ELSE <<>>)
    \o <<"memset dL_ddensity_network_output", "add_density_gradient",
         "density_network.backward", "fill_unused_rgb_input",
         "scale_gradient", "uv_network.backward">>
    \o (IF need_input_grad
        THEN <<"add_gradient", "pos_encoding.backward">> ELSE <<>>)

\* NerfNetwork::backward_impl on the context ctx of a forward call.  dL_doutput
\* is padded_output_width() x batch_size in the layout dlo_layout; want_dinput
\* tells whether dL_dinput is non-null.
backward_impl(ctx, kind, dlo_layout, want_dinput, junk) ==
    LET batch_size == ctx.n
        PW == m_pos_encoding.padded_output_width
        pl == m_pos_encoding.preferred_output_layout
        D  == m_dir_encoding.padded_output_width
        dl == m_dir_encoding.preferred_output_layout
        DW == m_density_network.padded_output_width
        U  == m_uv_network.padded_output_width
        RW == m_rgb_network.padded_output_width
        W  == m_rgb_network_input_width
        dL_doutput ==
            [k \in 0 .. (padded_output_width * batch_size - 1) |->
                DLoss(kind, junk,
                      ColOf(dlo_layout, padded_output_width, batch_size, k),
                      RowOf(dlo_layout, padded_output_width, batch_size, k))]
        \* GPUMatrix<T> dL_drgb: column-major
        dL_drgb ==
            extract_rgb(batch_size * 3, RW, padded_output_width, dL_doutput,
                        Memset0(Alloc(RW, batch_size, junk), 0, RW * batch_size))
        \* m_rgb_network->backward writes dL_drgb_network_input
        rgb_grad ==
            WriteRows(Alloc(W, batch_size, junk), dl, W, batch_size, 0, W,
                      [i \in 0 .. batch_size - 1, c \in 0 .. W - 1 |->
                          NetBackward("rgb",
                              [co \in 0 .. RW - 1 |-> dL_drgb[Idx("AoS", RW, batch_size, co, i)]],
                              RW, c)])
        dir_backward == m_dir_encoding.n_params > 0 \/ want_dinput
        \* what m_dir_encoding->backward reads: rows [0, D) of dL_drgb_network_input
        dL_ddir_encoding_output ==
            [i \in 0 .. batch_size - 1, c \in 0 .. D - 1 |->
                rgb_grad[Idx(dl, W, batch_size, c, i)]]
        dL_ddensity_network_output ==
            add_density_gradient(batch_size, padded_output_width, dL_doutput,
                IF DefaultLayout = "SoA" THEN 1 ELSE Stride(DefaultLayout, DW, batch_size),
                Memset0(Alloc(DW, batch_size, junk), 0, DW * batch_size))
        need_input_grad == m_pos_encoding.n_params > 0 \/ want_dinput
        \* m_density_network->backward writes dL_ddensity_network_input, if given
        G_density ==
            WriteRows(Alloc(PW, batch_size, junk), pl, PW, batch_size, 0, PW,
                      [i \in 0 .. batch_size - 1, c \in 0 .. PW - 1 |->
                          NetBackward("density",
                              [co \in 0 .. DW - 1 |->
                                  dL_ddensity_network_output[Idx(DefaultLayout, DW, batch_size, co, i)]],
                              DW, c)])
        packed_filled == fill_unused_rgb_input(rgb_grad, batch_size)
        \* dL_duv_network_output is rows [D, D + U) of dL_drgb_network_input
        packed_scaled ==
            scale_gradient(U * batch_size, m_uv_network_scale, packed_filled,
                           SliceOffset(dl, W, batch_size, D))
        dL_duv_network_output ==
            [i \in 0 .. batch_size - 1, c \in 0 .. U - 1 |->
                packed_scaled[Idx(dl, W, batch_size, D + c, i)]]
        \* m_uv_network->backward writes dL_duv_network_input
        G_uv ==
            WriteRows(Alloc(PW, batch_size, junk), pl, PW, batch_size, 0, PW,
                      [i \in 0 .. batch_size - 1, c \in 0 .. PW - 1 |->
                          NetBackward("uv",
                              [co \in 0 .. U - 1 |-> dL_duv_network_output[i, co]],
                              U, c)])
        summed == add_gradient(PW * batch_size, G_uv, G_density)
    IN  [op |-> "backward", n |-> batch_size, kind |-> kind,
         dlo_layout |-> dlo_layout, want_dinput |-> want_dinput, junk |-> junk,
         scale |-> m_uv_network_scale,
         dL_drgb |-> dL_drgb,
         rgb_grad |-> rgb_grad,
         dir_backward |-> dir_backward,
         dL_ddir_encoding_output |-> IF dir_backward THEN dL_ddir_encoding_output ELSE <<>>,
         dL_ddensity_network_output |-> dL_ddensity_network_output,
         G_density |-> IF need_input_grad THEN G_density ELSE <<>>,
         dL_drgb_network_input |-> packed_scaled,
         dL_duv_network_output |-> dL_duv_network_output,
         G_uv |-> G_uv,
         pos_backward |-> need_input_grad,
         dL_ddensity_network_input |-> IF need_input_grad THEN summed ELSE <<>>,
         allocated |->
             <<"dL_drgb", "dL_drgb_network_input", "dL_ddensity_network_output">>
             \o (IF need_input_grad THEN <<"dL_ddensity_network_input">> ELSE <<>>)
             \o <<"dL_duv_network_input">>,
         stream |-> backward_stream(dir_backward, need_input_grad),
         dL_dinput |->
             IF want_dinput THEN <<"dir slice", "pos slice">> ELSE <<>>]

BackwardBy(caller) ==
    /\ last.op = "forward"
    /\ \E kind \in GradientKinds, dlo_layout \in Layouts, want_dinput \in BOOLEAN,
          junk \in caller.junks :
           last' = backward_impl(last, kind, dlo_layout, want_dinput, junk)
    /\ UNCHANGED <<members, m_uv_network_scale, m_uv_grid, prm, calls>>

Backward == BackwardBy(AnyCaller)

\* NerfNetwork::uv_network_scale
uv_network_scale == m_uv_network_scale

\* NerfNetwork::set_uv_network_scale
SetUvNetworkScale ==
    /\ \E scale \in 1 .. MaxScale :
          /\ m_uv_network_scale' = scale
          /\ last' = [op |-> "set_uv_network_scale", scale |-> scale]
    /\ UNCHANGED <<members, m_uv_grid, prm, calls>>

\* the configurations the backward checks construct instances from
BackwardConfigs ==
    { [BaseConfig EXCEPT !.dir_layout = dl, !.pos_layout = pl,
                         !.n_params = [BaseConfig.n_params EXCEPT
                                          !.pos = t[1], !.dir = t[2]]] :
        dl \in Layouts, pl \in Layouts, t \in {<<0, 0>>, <<2, 0>>, <<0, 1>>} }


InitBackward == \E cfg \in BackwardConfigs, scale0 \in Uninit : NerfNetwork(cfg, scale0)

NextBackward == Forward \/ Backward \/ SetUvNetworkScale

SpecBackward == InitBackward /\ [][NextBackward]_vars

-----------------------------------------------------------------------------
(* The density-only paths *)

\* the context of a call that returned none
NoContext == <<>>

\* NerfNetwork::density.  input is the caller's matrix in the layout in_layout
\* (tcnn::CM is AoS); output is the caller's density_padded x batch_size matrix
\* in out_layout, holding junk before the call.
density(batch_size, seed, in_layout, out_layout, junk) ==
    LET PW == m_pos_encoding.padded_output_width
        pl == m_pos_encoding.preferred_output_layout
        DW == m_density_network.padded_output_width
        output_before == Alloc(DW, batch_size, junk)
        density_network_input ==
            WriteRows(Alloc(PW, batch_size, junk), pl, PW, batch_size, 0, PW,
                      [i \in 0 .. batch_size - 1, c \in 0 .. PW - 1 |-> PosEncode(seed, i, c)])
        output ==
            WriteRows(output_before, out_layout, DW, batch_size, 0, DW,
                      [i \in 0 .. batch_size - 1, co \in 0 .. DW - 1 |->
                          NetForward("density",
                              [c \in 0 .. PW - 1 |->
                                  density_network_input[Idx(pl, PW, batch_size, c, i)]],
                              PW, co)])
        call == [op |-> "density", n |-> batch_size, seed |-> seed, junk |-> junk,
                 in_layout |-> in_layout, out_layout |-> out_layout,
                 dinput_layout |-> "null",
                 output_before |-> output_before, dL_dinput_before |-> <<>>]
    IN  IF in_layout # "AoS"
        THEN call @@ [threw |-> TRUE, allocated |-> <<>>, stream |-> <<>>,
                      ctx |-> NoContext, output |-> output_before,
                      dL_dinput |-> <<>>]
        ELSE call @@ [threw |-> FALSE,
                      allocated |-> <<"density_network_input">>,
                      stream |-> <<"pos_encoding.inference", "density_network.inference">>,
                      ctx |-> NoContext, output |-> output,
                      dL_dinput |-> <<>>]

\* NerfNetwork::density_forward; output may be null (has_output FALSE)
density_forward(batch_size, seed, in_layout, has_output, out_layout, junk) ==
    LET PW == m_pos_encoding.padded_output_width
        pl == m_pos_encoding.preferred_output_layout
        DW == m_density_network.padded_output_width
        output_before == IF has_output THEN Alloc(DW, batch_size, junk) ELSE <<>>
        density_network_input ==
            WriteRows(Alloc(PW, batch_size, junk), pl, PW, batch_size, 0, PW,
                      [i \in 0 .. batch_size - 1, c \in 0 .. PW - 1 |-> PosEncode(seed, i, c)])
        \* forward->density_network_output is a view of the caller's output
        density_network_output ==
            WriteRows(output_before, out_layout, DW, batch_size, 0, DW,
                      [i \in 0 .. batch_size - 1, co \in 0 .. DW - 1 |->
                          NetForward("density",
                              [c \in 0 .. PW - 1 |->
                                  density_network_input[Idx(pl, PW, batch_size, c, i)]],
                              PW, co)])
        call == [op |-> "density_forward", n |-> batch_size, seed |-> seed,
                 junk |-> junk, in_layout |-> in_layout, out_layout |-> out_layout,
                 dinput_layout |-> "null",
                 output_before |-> output_before, dL_dinput_before |-> <<>>]
    IN  IF in_layout # "AoS"
        THEN call @@ [threw |-> TRUE, allocated |-> <<>>, stream |-> <<>>,
                      ctx |-> NoContext, output |-> output_before,
                      dL_dinput |-> <<>>]
        ELSE call @@ [threw |-> FALSE,
                      allocated |-> <<"forward", "density_network_input">>,
                      stream |-> <<"pos_encoding.forward", "density_network.forward">>,
                      ctx |-> [density_network_input |-> density_network_input,
                               has_output |-> has_output],
                      output |-> IF has_output THEN density_network_output ELSE <<>>,
                      dL_dinput |-> <<>>]

\* a variant of density_backward that checks the layout of input only
density_backward_unchecked_dinput(fwd, in_layout, dinput_layout, junk) ==
    LET batch_size == fwd.n
    IN  [op |-> "density_backward", n |-> batch_size, seed |-> fwd.seed,
         junk |-> junk, in_layout |-> in_layout, out_layout |-> fwd.out_layout,
         dinput_layout |-> dinput_layout,
         output_before |-> fwd.output, dL_dinput_before |-> <<>>,
         threw |-> in_layout # "AoS",
         allocated |-> IF in_layout # "AoS" THEN <<>>
                       ELSE <<"dL_ddensity_network_input">>,
         stream |-> IF in_layout # "AoS" THEN <<>>
                    ELSE <<"density_network.backward", "pos_encoding.backward">>,
         ctx |-> NoContext, output |-> fwd.output,
         dL_dinput |-> IF in_layout # "AoS" \/ dinput_layout = "null" THEN <<>>
                       ELSE <<"pos slice">>]

\* NerfNetwork::density_backward on the context of the density_forward call
\* fwd; dL_dinput is null or the caller's matrix in dinput_layout
density_backward(fwd, in_layout, dinput_layout, junk) ==
    LET batch_size == fwd.n
        PW == m_pos_encoding.padded_output_width
        pl == m_pos_encoding.preferred_output_layout
        DW == m_density_network.padded_output_width
        has_dinput == dinput_layout # "null"
        need_input_grad == m_pos_encoding.n_params > 0 \/ has_dinput
        \* the caller's dL_doutput, as the density network reads it
        dL_doutput == [i \in 0 .. batch_size - 1, co \in 0 .. DW - 1 |->
                          IF co = 0 THEN 2 + i ELSE junk]
        dL_ddensity_network_input ==
            WriteRows(Alloc(PW, batch_size, junk), pl, PW, batch_size, 0, PW,
                      [i \in 0 .. batch_size - 1, c \in 0 .. PW - 1 |->
                          NetBackward("density",
                              [co \in 0 .. DW - 1 |-> dL_doutput[i, co]], DW, c)])
        call == [op |-> "density_backward", n |-> batch_size, seed |-> fwd.seed,
                 junk |-> junk, in_layout |-> in_layout,
                 out_layout |-> fwd.out_layout, dinput_layout |-> dinput_layout,
                 output_before |-> fwd.output, dL_dinput_before |-> <<>>]
    IN  IF in_layout # "AoS" \/ (has_dinput /\ dinput_layout # "AoS")
        THEN call @@ [threw |-> TRUE, allocated |-> <<>>, stream |-> <<>>,
                      ctx |-> NoContext, output |-> fwd.output,
                      dL_dinput |-> <<>>]
        ELSE call @@ [threw |-> FALSE,
                      allocated |-> IF need_input_grad
                                    THEN <<"dL_ddensity_network_input">> ELSE <<>>,
                      stream |-> <<"density_network.backward">>
                                 \o (IF need_input_grad
                                     THEN <<"pos_encoding.backward">> ELSE <<>>),
                      ctx |-> NoContext, output |-> fwd.output,
                      dL_ddensity_network_input |->
                          IF need_input_grad THEN dL_ddensity_network_input ELSE <<>>,
                      dL_dinput |-> IF has_dinput THEN <<"pos slice">> ELSE <<>>]

DensityBy(caller) ==
    /\ \E batch_size \in caller.batches, seed \in caller.seeds, in_layout \in Layouts,
          out_layout \in Layouts, junk \in caller.junks :
           last' = density(batch_size, seed, in_layout, out_layout, junk)
    /\ UNCHANGED <<members, m_uv_network_scale, m_uv_grid, prm, calls>>

Density == DensityBy(AnyCaller)

DensityForwardBy(caller) ==
    /\ \E batch_size \in caller.batches, seed \in caller.seeds, in_layout \in Layouts,
          output \in {"null"} \cup Layouts, junk \in caller.junks :
           last' = density_forward(batch_size, seed, in_layout, output # "null",
                                   IF output = "null" THEN DefaultLayout ELSE output,
                                   junk)
    /\ UNCHANGED <<members, m_uv_network_scale, m_uv_grid, prm, calls>>

DensityForward == DensityForwardBy(AnyCaller)

DensityBackwardBy(caller) ==
    /\ last.op = "density_forward"
    /\ ~last.threw
    /\ \E in_layout \in Layouts, dinput_layout \in {"null"} \cup Layouts,
          junk \in caller.junks :
           last' = density_backward(last, in_layout, dinput_layout, junk)
    /\ UNCHANGED <<members, m_uv_network_scale, m_uv_grid, prm, calls>>

DensityBackward == DensityBackwardBy(AnyCaller)

\* the configurations the density-path checks construct instances from
DensityConfigs ==
    { [BaseConfig EXCEPT !.pos_layout = pl,
                         !.n_params = [BaseConfig.n_params EXCEPT !.pos = np]] :
        pl \in Layouts, np \in {0, 2} }

InitDensity == \E cfg \in DensityConfigs, scale0 \in {1} : NerfNetwork(cfg, scale0)

NextDensity == Density \/ DensityForward \/ DensityBackward

SpecDensity == InitDensity /\ [][NextDensity]_vars

-----------------------------------------------------------------------------
(* The texture path *)

\* the largest texture_size uv2texture is given
MaxTex == 2

\* the directions uv2texture is given
Dirs == {1}

RECURSIVE Gcd(_, _)
Gcd(a, b) == IF b = 0 THEN a ELSE Gcd(b, a % b)

RECURSIVE LcmTo(_)
LcmTo(n) == IF n = 1 THEN 1 ELSE (LcmTo(n - 1) * n) \div Gcd(LcmTo(n - 1), n)

\* grid coordinates are held in units of 1 / GridUnit, in which x / tex_size is
\* exact for every tex_size up to MaxTex
GridUnit == LcmTo(MaxTex)

\* (T)x / (T)tex_size
Quotient(x, tex_size) == (x * GridUnit) \div tex_size

\* repeat_vec<T>: the direction, once per element
repeat_vec(n_elements, input) == [i \in 0 .. n_elements - 1 |-> input]

\* generate_uv_grid<T>: output[i] = x / tex_size and
\* output[i + n_elements] = y / tex_size, y = i / tex_size, x = i - y * tex_size
generate_uv_grid(n_elements, tex_size, output) ==
    [k \in DOMAIN output |->
        IF k < n_elements
        THEN Quotient(k - (k \div tex_size) * tex_size, tex_size)
        ELSE IF k < 2 * n_elements
        THEN Quotient((k - n_elements) \div tex_size, tex_size)
        ELSE output[k]]

\* cudaMemcpyAsync(dst + off, src, cnt * sizeof(T)): the part of the copy that
\* lies inside the destination buffer
Memcpy(dst, off, src, cnt) ==
    [k \in DOMAIN dst |-> IF k >= off /\ k < off + cnt THEN src[k - off] ELSE dst[k]]

\* a variant of uv2texture's cache test that also regenerates the grid when the
\* batch size differs from the cached one
uv_grid_missing_or_resized(batch_size) == ~m_uv_grid.alloc \/ m_uv_grid.n # batch_size

\* a variant of the cache test that finds the grid missing at every call
uv_grid_always_missing(batch_size) == TRUE

\* !m_uv_grid.data()
uv_grid_missing(batch_size) == ~m_uv_grid.alloc

\* NerfNetwork::uv2texture; output is the caller's matrix, batch_size its n().
\* call is what the call did, uv_grid the value of m_uv_grid after it.
uv2texture(batch_size, texture_size, dir, out_layout, junk) ==
    LET D  == m_dir_encoding.padded_output_width
        dl == m_dir_encoding.preferred_output_layout
        RW == m_rgb_network.padded_output_width
        W  == m_rgb_network_input_width
        dir_encoding_input == repeat_vec(batch_size, dir)
        rgb_in_dir ==
            WriteRows(Alloc(W, batch_size, junk), dl, W, batch_size, 0, D,
                      [i \in 0 .. batch_size - 1, c \in 0 .. D - 1 |->
                          DirEncoding(dir_encoding_input[i], c)])
        generated == uv_grid_missing(batch_size)
        uv_grid ==
            IF generated
            THEN [alloc |-> TRUE, n |-> batch_size,
                  data |-> generate_uv_grid(batch_size, texture_size,
                                            Alloc(2, batch_size, junk))]
            ELSE m_uv_grid
        \* uv_grid = rgb_network_input.slice_rows(D, 2); m_uv_grid.n_bytes()
        copy_offset == SliceOffset(dl, W, batch_size, D)
        copy_count == 2 * uv_grid.n
        rgb_in_uv == Memcpy(rgb_in_dir, copy_offset, uv_grid.data, copy_count)
        rgb_network_input == fill_unused_rgb_input(rgb_in_uv, batch_size)
        output ==
            WriteRows(Alloc(padded_output_width, batch_size, junk), out_layout, RW,
                      batch_size, 0, RW,
                      [i \in 0 .. batch_size - 1, c \in 0 .. RW - 1 |->
                          NetForward("rgb",
                              [ci \in 0 .. W - 1 |->
                                  rgb_network_input[Idx(dl, W, batch_size, ci, i)]],
                              W, c)])
    IN  [call |->
            [op |-> "uv2texture", n |-> batch_size, texture_size |-> texture_size,
             dir |-> dir, junk |-> junk, out_layout |-> out_layout,
             dir_encoding_input |-> dir_encoding_input,
             generated |-> generated,
             copy_offset |-> copy_offset,
             copied |-> [k \in 0 .. copy_count - 1 |-> uv_grid.data[k]],
             copied_past_end |-> Max(0, copy_offset + copy_count - W * batch_size),
             rgb_network_input |-> rgb_network_input,
             output |-> output],
         uv_grid |-> uv_grid]

Uv2Texture ==
    /\ \E batch_size \in 1 .. MaxBatch, texture_size \in 1 .. MaxTex, dir \in Dirs,
          out_layout \in Layouts, junk \in Uninit :
           LET r == uv2texture(batch_size, texture_size, dir, out_layout, junk)
           IN  /\ last' = r.call
               /\ m_uv_grid' = r.uv_grid
    /\ UNCHANGED <<members, m_uv_network_scale, prm, calls>>

-----------------------------------------------------------------------------
(* Claims about inference and forward *)

\* element (row r, sample i) of the packed rgb-input buffer of the last call
PackedAt(r, i) ==
    last.rgb_network_input[Idx(m_dir_encoding.preferred_output_layout,
                               m_rgb_network_input_width, last.n, r, i)]

\* element (channel c, sample i) of the caller's output after the last call
OutputAt(rec, c, i) ==
    rec.output[Idx(rec.out_layout, padded_output_width, rec.n, c, i)]

\* C1: after an inference or forward call, every element of the packed
\* rgb-input buffer outside the direction slice [0, dir_padded) and the 2-channel
\* uv latent [dir_padded, dir_padded + 2) is zero when the rgb-net reads it.
C1_PaddingIsZero ==
    last.op \in {"inference", "forward"} =>
        \A i \in 0 .. last.n - 1 :
            \A r \in (m_dir_encoding.padded_output_width + 2)
                         .. (m_rgb_network_input_width - 1) :
                PackedAt(r, i) = 0

\* C2: a forward call with an output buffer, made right after an inference call
\* on the same input, the same output layout and the same memory contents,
\* leaves the same RGB (0..2) and density (3) channels in the output.
C2_ForwardMatchesInference ==
    [][(/\ last.op = "inference"
        /\ last'.op = "forward"
        /\ last'.has_output
        /\ last'.n = last.n
        /\ last'.seed = last.seed
        /\ last'.junk = last.junk
        /\ last'.out_layout = last.out_layout)
       => \A i \in 0 .. last.n - 1 : \A c \in 0 .. 3 :
              OutputAt(last', c, i) = OutputAt(last, c, i)]_vars

\* C6: after inference, and after forward with an output buffer, channel 3 of
\* sample i of the output is channel 0 of sample i of the density-net output.
C6_DensityChannel ==
    (last.op \in {"inference", "forward"} /\ last.has_output) =>
        \A i \in 0 .. last.n - 1 :
            OutputAt(last, 3, i) =
                last.density_network_output[
                    Idx(DefaultLayout, m_density_network.padded_output_width,
                        last.n, 0, i)]

-----------------------------------------------------------------------------
(* Parameter management *)

\* the configurations the parameter checks construct instances from: the
\* networks hold 1..MaxParams parameters each, the encodings 0..MaxParams
MaxParams == 2

\* what one sub-module is handed: pointers at these offsets from the bases
Handed(module, offset) ==
    [module |-> module, params |-> offset, inference_params |-> offset,
     gradients |-> offset]

\* NerfNetwork::set_params_impl: the calls it makes, in order
set_params_impl ==
    LET offset0 == 0
        offset1 == offset0 + m_density_network.n_params
        offset2 == offset1 + m_uv_network.n_params
        offset3 == offset2 + m_rgb_network.n_params
        offset4 == offset3 + m_pos_encoding.n_params
    IN  << Handed("density_network", offset0),
           Handed("uv_network", offset1),
           Handed("rgb_network", offset2),
           Handed("pos_encoding", offset3),
           Handed("dir_encoding", offset4) >>

\* initialize_params with the advance past the uv-net's range left out
initialize_params_skips_uv ==
    LET p0 == 0
        p1 == p0 + m_density_network.n_params
        p2 == p1
        p3 == p2 + m_rgb_network.n_params
        p4 == p3 + m_pos_encoding.n_params
    IN  << [module |-> "density_network", params_full_precision |-> p0],
           [module |-> "uv_network", params_full_precision |-> p1],
           [module |-> "rgb_network", params_full_precision |-> p2],
           [module |-> "pos_encoding", params_full_precision |-> p3],
           [module |-> "dir_encoding", params_full_precision |-> p4] >>

\* NerfNetwork::initialize_params: the calls it makes, in order, with the
\* offset of params_full_precision from its value on entry
initialize_params ==
    LET p0 == 0
        p1 == p0 + m_density_network.n_params
        p2 == p1 + m_uv_network.n_params
        p3 == p2 + m_rgb_network.n_params
        p4 == p3 + m_pos_encoding.n_params
    IN  << [module |-> "density_network", params_full_precision |-> p0],
           [module |-> "uv_network", params_full_precision |-> p1],
           [module |-> "rgb_network", params_full_precision |-> p2],
           [module |-> "pos_encoding", params_full_precision |-> p3],
           [module |-> "dir_encoding", params_full_precision |-> p4] >>

\* NerfNetwork::n_params
n_params ==
    m_pos_encoding.n_params
        + m_density_network.n_params
        + m_uv_network.n_params
        + m_dir_encoding.n_params
        + m_rgb_network.n_params

SetParams ==
    /\ prm' = [prm EXCEPT !.set = set_params_impl]
    /\ UNCHANGED <<members, m_uv_network_scale, m_uv_grid, last, calls>>

InitializeParams ==
    /\ prm' = [prm EXCEPT !.init = initialize_params]
    /\ UNCHANGED <<members, m_uv_network_scale, m_uv_grid, last, calls>>

NParams ==
    /\ last' = [op |-> "n_params", result |-> n_params]
    /\ UNCHANGED <<members, m_uv_network_scale, m_uv_grid, prm, calls>>

ParamConfigs ==
    { [BaseConfig EXCEPT !.n_params = [density |-> nd, uv |-> nu, rgb |-> nr,
                                       pos |-> np, dir |-> ndir]] :
        nd \in 1 .. MaxParams, nu \in 1 .. MaxParams, nr \in 1 .. MaxParams,
        np \in 0 .. MaxParams, ndir \in 0 .. MaxParams }

InitParams == \E cfg \in ParamConfigs, scale0 \in {1} : NerfNetwork(cfg, scale0)

NextParams == SetParams \/ InitializeParams \/ NParams

SpecParams == InitParams /\ [][NextParams]_vars

\* the fixed order of the five parameter ranges
ParamOrder ==
    <<"density_network", "uv_network", "rgb_network", "pos_encoding", "dir_encoding">>

\* n_params() of a sub-module
SubParams(module) ==
    CASE module = "density_network" -> m_density_network.n_params
      [] module = "uv_network" -> m_uv_network.n_params
      [] module = "rgb_network" -> m_rgb_network.n_params
      [] module = "pos_encoding" -> m_pos_encoding.n_params
      [] module = "dir_encoding" -> m_dir_encoding.n_params

\* the sum of n_params() of the sub-modules before the k-th in the fixed order
RECURSIVE Cumulative(_)
Cumulative(k) == IF k = 1 THEN 0 ELSE Cumulative(k - 1) + SubParams(ParamOrder[k - 1])

\* C3: set_params_impl and initialize_params hand the k-th sub-module of the
\* fixed order the same offset, the sum of n_params() of the sub-modules before
\* it (in all three of params, inference_params and gradients), and the offset
\* after the last range is NerfNetwork::n_params().
C3_ParamPartition ==
    /\ prm.set # <<>> =>
          /\ Len(prm.set) = 5
          /\ \A k \in 1 .. 5 :
                prm.set[k] = Handed(ParamOrder[k], Cumulative(k))
          /\ prm.set[5].params + m_dir_encoding.n_params = n_params
    /\ prm.init # <<>> =>
          /\ Len(prm.init) = 5
          /\ \A k \in 1 .. 5 :
                /\ prm.init[k].module = ParamOrder[k]
                /\ prm.init[k].params_full_precision = Cumulative(k)
          /\ prm.init[5].params_full_precision + m_dir_encoding.n_params = n_params
    /\ (prm.set # <<>> /\ prm.init # <<>>) =>
          \A k \in 1 .. 5 :
              prm.set[k].params = prm.init[k].params_full_precision

\* both operations have run on an instance all of whose sub-modules hold parameters
C3_Witness ==
    /\ prm.set # <<>>
    /\ prm.init # <<>>
    /\ \A k \in 1 .. 5 : SubParams(ParamOrder[k]) > 0
    /\ m_uv_network.n_params # m_rgb_network.n_params

-----------------------------------------------------------------------------
(* Claims about backward *)

\* element (row r, sample i) of a packed-buffer gradient (W x n, dir layout)
PackedGradAt(buf, r, i) ==
    buf[Idx(m_dir_encoding.preferred_output_layout, m_rgb_network_input_width,
            last.n, r, i)]

\* element (channel c, sample i) of a density-network-input-space buffer
PosGradAt(buf, c, i) ==
    buf[Idx(m_pos_encoding.preferred_output_layout,
            m_pos_encoding.padded_output_width, last.n, c, i)]

\* C4: whenever the position encoding is trainable or dL_dinput is requested,
\* position-encoder backward is given, element by element, G_density + G_uv,
\* the input gradients produced by density-net backward and uv-net backward;
\* when the uv slice of the packed-buffer gradient is all zero it is given
\* exactly G_density.
C4_JointGradient ==
    last.op = "backward" =>
        /\ last.pos_backward = (m_pos_encoding.n_params > 0 \/ last.want_dinput)
        /\ last.pos_backward =>
              /\ \A i \in 0 .. last.n - 1 :
                    \A c \in 0 .. m_pos_encoding.padded_output_width - 1 :
                        PosGradAt(last.dL_ddensity_network_input, c, i) =
                            PosGradAt(last.G_density, c, i) + PosGradAt(last.G_uv, c, i)
              /\ (\A i \in 0 .. last.n - 1 :
                     \A c \in 0 .. m_uv_network.padded_output_width - 1 :
                         PackedGradAt(last.rgb_grad,
                                      m_dir_encoding.padded_output_width + c, i) = 0)
                    => last.dL_ddensity_network_input = last.G_density

\* position-encoder backward ran on a sum to which both branches contribute
C4_Witness ==
    /\ last.op = "backward"
    /\ last.pos_backward
    /\ last.n = MaxBatch
    /\ \E k \in DOMAIN last.G_uv : last.G_uv[k] # 0 /\ last.G_density[k] # 0

\* C5: the uv gradient scale is applied exactly once, to the uv slice of the
\* packed-buffer gradient of rgb-net backward, before uv-net backward reads it:
\* uv-net backward reads scale times the rgb-net's gradient on the uv latent of
\* every sample and its result is not rescaled, G_density is not scaled, and
\* the direction slice of the packed-buffer gradient is left as it was.
C5_ScaleOnce ==
    last.op = "backward" =>
        /\ \A i \in 0 .. last.n - 1 : \A c \in 0 .. 1 :
              last.dL_duv_network_output[i, c] =
                  last.scale * PackedGradAt(last.rgb_grad,
                                            m_dir_encoding.padded_output_width + c, i)
        /\ \A i \in 0 .. last.n - 1 :
              \A c \in 0 .. m_pos_encoding.padded_output_width - 1 :
                  PosGradAt(last.G_uv, c, i) =
                      NetBackward("uv",
                          [co \in 0 .. m_uv_network.padded_output_width - 1 |->
                              last.dL_duv_network_output[i, co]],
                          m_uv_network.padded_output_width, c)
        /\ last.pos_backward =>
              \A i \in 0 .. last.n - 1 :
                  \A c \in 0 .. m_pos_encoding.padded_output_width - 1 :
                      PosGradAt(last.G_density, c, i) =
                          NetBackward("density",
                              [co \in 0 .. m_density_network.padded_output_width - 1 |->
                                  last.dL_ddensity_network_output[
                                      Idx(DefaultLayout,
                                          m_density_network.padded_output_width,
                                          last.n, co, i)]],
                              m_density_network.padded_output_width, c)
        /\ \A i \in 0 .. last.n - 1 :
              \A r \in 0 .. m_dir_encoding.padded_output_width - 1 :
                  PackedGradAt(last.dL_drgb_network_input, r, i) =
                      PackedGradAt(last.rgb_grad, r, i)

-----------------------------------------------------------------------------
(* Claims about the density-only paths *)

DensityOps == {"density", "density_forward", "density_backward"}

\* the call was given an input, or a dL_dinput, that is not column-major
BadLayout(call) ==
    \/ call.in_layout # "AoS"
    \/ call.op = "density_backward" /\ call.dinput_layout = "SoA"

\* C7: a density, density_forward or density_backward call whose input (or,
\* for density_backward, whose supplied dL_dinput) is not column-major fails,
\* and a failing call has allocated nothing, invoked no sub-module, enqueued
\* nothing, returned no context and changed neither the caller's output and
\* dL_dinput nor the instance.
C7_LayoutErrorFirst ==
    [][ last'.op \in DensityOps =>
          /\ BadLayout(last') => last'.threw
          /\ last'.threw =>
                /\ last'.allocated = <<>>
                /\ last'.stream = <<>>
                /\ last'.ctx = NoContext
                /\ last'.output = last'.output_before
                /\ last'.dL_dinput = last'.dL_dinput_before
                /\ UNCHANGED <<members, m_uv_network_scale, m_uv_grid, prm, calls>> ]_vars

\* density_backward was given a column-major input and a row-major dL_dinput,
\* and failed
C7_Witness ==
    /\ last.op = "density_backward"
    /\ last.in_layout = "AoS"
    /\ last.dinput_layout = "SoA"
    /\ last.threw

-----------------------------------------------------------------------------
(* The texture path among the other operations *)

\* the configurations the texture checks construct instances from
TextureConfigs == { [BaseConfig EXCEPT !.dir_layout = dl] : dl \in Layouts }

InitTexture == \E cfg \in TextureConfigs, scale0 \in {1} : NerfNetwork(cfg, scale0)

\* uv2texture with every argument, among the other operations of one caller
NextTexture ==
    \/ Uv2Texture
    \/ InferenceBy(OneCaller)
    \/ ForwardBy(OneCaller)
    \/ BackwardBy(OneCaller)
    \/ DensityBy(OneCaller)
    \/ DensityForwardBy(OneCaller)
    \/ DensityBackwardBy(OneCaller)
    \/ SetParams

SpecTexture == InitTexture /\ [][NextTexture]_vars

\* C8: once a uv2texture call has generated the UV grid, no operation
\* regenerates or modifies it: every step leaves an allocated m_uv_grid as it
\* was, a uv2texture call that finds the grid allocated copies exactly the
\* cached contents to the start of the uv slice of its packed buffer, and two
\* consecutive uv2texture calls at the same resolution and batch size copy
\* identical contents.
C8_GridCacheStable ==
    [][ /\ m_uv_grid.alloc => m_uv_grid' = m_uv_grid
        /\ (last' # last /\ last'.op = "uv2texture" /\ m_uv_grid.alloc) =>
              /\ ~last'.generated
              /\ last'.copied = m_uv_grid.data
              /\ last'.copy_offset =
                     SliceOffset(m_dir_encoding.preferred_output_layout,
                                 m_rgb_network_input_width, last'.n,
                                 m_dir_encoding.padded_output_width)
        /\ (/\ last.op = "uv2texture"
            /\ last'.op = "uv2texture"
            /\ last'.n = last.n
            /\ last'.texture_size = last.texture_size) =>
              /\ last'.copied = last.copied
              /\ last'.copy_offset = last.copy_offset ]_vars

\* a uv2texture call reused a grid that holds a non-zero coordinate, after an
\* operation other than uv2texture had run on the instance
C8_Witness ==
    /\ last.op = "uv2texture"
    /\ ~last.generated
    /\ last.n = m_uv_grid.n
    /\ prm.set # <<>>
    /\ \E k \in DOMAIN last.copied : last.copied[k] # 0

-----------------------------------------------------------------------------
(* Introspection *)

\* the largest number of forward activations of a sub-network
MaxAct == 2

\* the hyperparams() of an encoding
EncodingHyperparams(name, enc) ==
    [otype |-> name, n_dims_to_encode |-> enc.padded_output_width]

\* the hyperparams() of a network
NetworkHyperparams(name, net) ==
    [otype |-> name, n_output_dims |-> net.n_output_dims,
     n_hidden_layers |-> net.num_forward_activations]

\* NerfNetwork::hyperparams
hyperparams ==
    LET density_network_hyperparams ==
            [NetworkHyperparams("density_network", m_density_network)
                EXCEPT !.n_output_dims = m_density_network.padded_output_width]
    IN  [otype |-> "NerfNetwork",
         pos_encoding |-> EncodingHyperparams("pos_encoding", m_pos_encoding),
         dir_encoding |-> EncodingHyperparams("dir_encoding", m_dir_encoding),
         density_network |-> density_network_hyperparams,
         uv_network |-> NetworkHyperparams("uv_network", m_uv_network),
         rgb_network |-> NetworkHyperparams("rgb_network", m_rgb_network)]

\* Network::width(layer) of a sub-network
NetWidth(net, layer) == 8 * (1 + NetIndex[net]) + layer

\* a variant of width whose uv branch does not subtract the leading entry
width_uv_off_by_one(layer) ==
    LET d == m_density_network.num_forward_activations
        u == m_uv_network.num_forward_activations
    IN  IF layer = 0
        THEN [target |-> <<"pos_encoding">>,
              value |-> m_pos_encoding.padded_output_width]
        ELSE IF layer < d + 1
        THEN [target |-> <<"density_network", layer - 1>>,
              value |-> NetWidth("density", layer - 1)]
        ELSE IF layer < d + u + 1
        THEN [target |-> <<"uv_network", layer - d>>,
              value |-> NetWidth("uv", layer - d)]
        ELSE IF layer = d + u + 1
        THEN [target |-> <<"rgb_network_input">>,
              value |-> m_rgb_network_input_width]
        ELSE [target |-> <<"rgb_network", layer - d - u - 2>>,
              value |-> NetWidth("rgb", layer - d - u - 2)]

\* NerfNetwork::width: the value returned and where it was taken from
width(layer) ==
    LET d == m_density_network.num_forward_activations
        u == m_uv_network.num_forward_activations
    IN  IF layer = 0
        THEN [target |-> <<"pos_encoding">>,
              value |-> m_pos_encoding.padded_output_width]
        ELSE IF layer < d + 1
        THEN [target |-> <<"density_network", layer - 1>>,
              value |-> NetWidth("density", layer - 1)]
        ELSE IF layer < d + u + 1
        THEN [target |-> <<"uv_network", layer - d - 1>>,
              value |-> NetWidth("uv", layer - d - 1)]
        ELSE IF layer = d + u + 1
        THEN [target |-> <<"rgb_network_input">>,
              value |-> m_rgb_network_input_width]
        ELSE [target |-> <<"rgb_network", layer - d - u - 2>>,
              value |-> NetWidth("rgb", layer - d - u - 2)]

\* NerfNetwork::num_forward_activations
num_forward_activations ==
    m_density_network.num_forward_activations
        + m_uv_network.num_forward_activations
        + m_rgb_network.num_forward_activations
        + 2

\* NerfNetwork::forward_activations on the context ctx of a forward call: the
\* buffer returned (or the sub-network call it is taken from) and its layout
forward_activations(ctx, layer) ==
    LET d == m_density_network.num_forward_activations
        u == m_uv_network.num_forward_activations
    IN  IF layer = 0
        THEN [target |-> <<"pos_encoding">>,
              data |-> ctx.density_network_input,
              layout |-> m_pos_encoding.preferred_output_layout]
        ELSE IF layer < d + 1
        THEN [target |-> <<"density_network", layer - 1>>,
              data |-> <<"density_network_ctx", layer - 1>>,
              layout |-> DefaultLayout]
        ELSE IF layer < d + u + 1
        THEN [target |-> <<"uv_network", layer - d - 1>>,
              data |-> <<"uv_network_ctx", layer - d - 1>>,
              layout |-> DefaultLayout]
        ELSE IF layer = d + u + 1
        THEN [target |-> <<"rgb_network_input">>,
              data |-> ctx.rgb_network_input,
              layout |-> m_dir_encoding.preferred_output_layout]
        ELSE [target |-> <<"rgb_network", layer - 2 - d - u>>,
              data |-> <<"rgb_network_ctx", layer - 2 - d - u>>,
              layout |-> DefaultLayout]

Hyperparams ==
    /\ last' = [op |-> "hyperparams", result |-> hyperparams]
    /\ UNCHANGED <<members, m_uv_network_scale, m_uv_grid, prm, calls>>

\* the caller may pass any layer, the first index past the end included
Width ==
    /\ \E layer \in 0 .. num_forward_activations :
          last' = [op |-> "width", layer |-> layer] @@ width(layer)
    /\ UNCHANGED <<members, m_uv_network_scale, m_uv_grid, prm, calls>>

NumForwardActivations ==
    /\ last' = [op |-> "num_forward_activations", result |-> num_forward_activations]
    /\ UNCHANGED <<members, m_uv_network_scale, m_uv_grid, prm, calls>>

ForwardActivations ==
    /\ last.op = "forward"
    /\ \E layer \in 0 .. num_forward_activations :
          last' = [op |-> "forward_activations", layer |-> layer]
                      @@ forward_activations(last, layer)
    /\ UNCHANGED <<members, m_uv_network_scale, m_uv_grid, prm, calls>>

\* the configurations the introspection checks construct instances from
IntrospectConfigs ==
    { [BaseConfig EXCEPT !.n_act = [density |-> d, uv |-> u, rgb |-> r]] :
        d \in 0 .. MaxAct, u \in 0 .. MaxAct, r \in 0 .. MaxAct }

InitIntrospect ==
    \E cfg \in IntrospectConfigs, scale0 \in {1} : NerfNetwork(cfg, scale0)

NextIntrospect ==
    \/ Hyperparams
    \/ SetUvNetworkScale
    \/ Width
    \/ NumForwardActivations
    \/ ForwardBy(OneCaller)
    \/ ForwardActivations

SpecIntrospect == InitIntrospect /\ [][NextIntrospect]_vars

\* the keys under which hyperparams() holds the sub-modules' configurations
SubModuleKeys ==
    {"pos_encoding", "dir_encoding", "density_network", "uv_network", "rgb_network"}

\* the reflected configuration of a sub-module
Reflected(key) ==
    CASE key = "pos_encoding" -> EncodingHyperparams(key, m_pos_encoding)
      [] key = "dir_encoding" -> EncodingHyperparams(key, m_dir_encoding)
      [] key = "density_network" -> NetworkHyperparams(key, m_density_network)
      [] key = "uv_network" -> NetworkHyperparams(key, m_uv_network)
      [] key = "rgb_network" -> NetworkHyperparams(key, m_rgb_network)

\* C9: what hyperparams() returns holds the reflected configuration of each of
\* the five sub-modules (the density network's up to its n_output_dims) and,
\* under some further key, the uv gradient scale currently in effect.
C9_HyperparamsHoldScale ==
    last.op = "hyperparams" =>
        /\ \A key \in SubModuleKeys :
              /\ key \in DOMAIN last.result
              /\ last.result[key].otype = Reflected(key).otype
              /\ key # "density_network" => last.result[key] = Reflected(key)
        /\ \E key \in DOMAIN last.result \ (SubModuleKeys \cup {"otype"}) :
              last.result[key] = m_uv_network_scale

\* the target the flat index layer stands for, d, u, r being the activation
\* counts of the density, uv and rgb networks
FlatTarget(layer) ==
    LET d == m_density_network.num_forward_activations
        u == m_uv_network.num_forward_activations
    IN  CASE layer = 0 -> <<"pos_encoding">>
          [] layer \in 1 .. d -> <<"density_network", layer - 1>>
          [] layer \in d + 1 .. d + u -> <<"uv_network", layer - (d + 1)>>
          [] layer = d + u + 1 -> <<"rgb_network_input">>
          [] layer >= d + u + 2 -> <<"rgb_network", layer - (d + u + 2)>>

\* the number of layers of the sub-network a target names
LayersOf(target) ==
    CASE target[1] = "density_network" -> m_density_network.num_forward_activations
      [] target[1] = "uv_network" -> m_uv_network.num_forward_activations
      [] target[1] = "rgb_network" -> m_rgb_network.num_forward_activations

\* C10: num_forward_activations() is d + u + r + 2, and width(layer) and
\* forward_activations(ctx, layer) resolve every flat index below it to the
\* one target the index stands for, giving a sub-network only layer indices
\* of its own range; the two synthetic entries are the position encoder's
\* output and the packed rgb-input buffer.
C10_FlatIndex ==
    /\ last.op = "num_forward_activations" =>
          last.result = m_density_network.num_forward_activations
                            + m_uv_network.num_forward_activations
                            + m_rgb_network.num_forward_activations + 2
    /\ (last.op \in {"width", "forward_activations"}
            /\ last.layer < num_forward_activations) =>
          /\ last.target = FlatTarget(last.layer)
          /\ Len(last.target) = 2 =>
                last.target[2] >= 0 /\ last.target[2] < LayersOf(last.target)
    /\ (last.op = "width" /\ last.layer = 0) =>
          last.value = m_pos_encoding.padded_output_width
    /\ (last.op = "width" /\ last.target = <<"rgb_network_input">>) =>
          last.value = m_rgb_network_input_width
    /\ (last.op = "forward_activations" /\ last.layer = 0) =>
          last.layout = m_pos_encoding.preferred_output_layout
    /\ (last.op = "forward_activations"
            /\ last.target = <<"rgb_network_input">>) =>
          last.layout = m_dir_encoding.preferred_output_layout

\* the last flat index of a uv network of more than one layer, which follows a
\* density network with layers, was resolved
C10_Witness ==
    /\ last.op \in {"width", "forward_activations"}
    /\ m_density_network.num_forward_activations >= 1
    /\ m_uv_network.num_forward_activations >= 2
    /\ last.layer = m_density_network.num_forward_activations
                        + m_uv_network.num_forward_activations
    /\ last.target = <<"uv_network", m_uv_network.num_forward_activations - 1>>

-----------------------------------------------------------------------------
(* Further claims about inference and forward *)

\* channel c of the position encoding of sample i, as the last call's
\* density_network_input holds it
PosOutAt(c, i) ==
    last.density_network_input[Idx(m_pos_encoding.preferred_output_layout,
                                   m_pos_encoding.padded_output_width, last.n, c, i)]

\* C11: when the rgb-net is invoked by inference or forward, the packed
\* rgb-input buffer holds, for every sample i, the direction encoding of
\* sample i in rows [0, dir_padded) and channels 0 and 1 of the uv-net's output
\* for sample i in rows dir_padded and dir_padded + 1: the zero fill and the
\* direction encoder's write have overwritten neither.
C11_PackedHoldsDirAndUv ==
    last.op \in {"inference", "forward"} =>
        \A i \in 0 .. last.n - 1 :
            /\ \A c \in 0 .. m_dir_encoding.padded_output_width - 1 :
                  PackedAt(c, i) = DirEncode(last.seed, i, c)
            /\ \A c \in 0 .. 1 :
                  PackedAt(m_dir_encoding.padded_output_width + c, i) =
                      NetForward("uv",
                          [ci \in 0 .. m_pos_encoding.padded_output_width - 1 |->
                              PosOutAt(ci, i)],
                          m_pos_encoding.padded_output_width, c)

-----------------------------------------------------------------------------
(* Further claims about backward *)

\* the entries of a log
Entries(log) == { log[k] : k \in DOMAIN log }

\* C12: backward_impl invokes direction-encoder backward exactly when the
\* direction encoder has parameters or dL_dinput is requested, and does the
\* work in the density-network-input space (allocating dL_ddensity_network_input
\* and dL_duv_network_input, producing G_density and G_uv, add_gradient,
\* position-encoder backward) exactly when the position encoder has parameters
\* or dL_dinput is requested: otherwise none of it is allocated or computed.
C12_OnlyWhatIsNeeded ==
    last.op = "backward" =>
        LET dir_needed == m_dir_encoding.n_params > 0 \/ last.want_dinput
            pos_needed == m_pos_encoding.n_params > 0 \/ last.want_dinput
        IN  /\ ("dir_encoding.backward" \in Entries(last.stream)) = dir_needed
            /\ ("dL_ddensity_network_input" \in Entries(last.allocated)) = pos_needed
            /\ ("dL_duv_network_input" \in Entries(last.allocated)) = pos_needed
            /\ (last.G_density # <<>>) = pos_needed
            /\ (last.G_uv # <<>>) = pos_needed
            /\ ("add_gradient" \in Entries(last.stream)) = pos_needed
            /\ ("pos_encoding.backward" \in Entries(last.stream)) = pos_needed

\* a precedes b in the log, when both are in it
Precedes(log, a, b) ==
    \A j \in DOMAIN log : \A k \in DOMAIN log :
        (log[j] = a /\ log[k] = b) => j < k

\* every step of backward_impl is enqueued once, after the steps that produce
\* the data it reads
ProducersFirst(log) ==
    /\ \A j \in DOMAIN log : \A k \in DOMAIN log : log[j] = log[k] => j = k
    /\ {"extract_rgb", "rgb_network.backward", "add_density_gradient",
        "density_network.backward", "scale_gradient", "uv_network.backward"}
           \subseteq Entries(log)
    /\ Precedes(log, "memset dL_drgb", "extract_rgb")
    /\ Precedes(log, "extract_rgb", "rgb_network.backward")
    /\ Precedes(log, "rgb_network.backward", "dir_encoding.backward")
    /\ Precedes(log, "rgb_network.backward", "fill_unused_rgb_input")
    /\ Precedes(log, "fill_unused_rgb_input", "scale_gradient")
    /\ Precedes(log, "scale_gradient", "uv_network.backward")
    /\ Precedes(log, "memset dL_ddensity_network_output", "add_density_gradient")
    /\ Precedes(log, "add_density_gradient", "density_network.backward")
    /\ Precedes(log, "density_network.backward", "add_gradient")
    /\ Precedes(log, "uv_network.backward", "add_gradient")
    /\ Precedes(log, "add_gradient", "pos_encoding.backward")

\* C13 as stated: backward_impl enqueues (1) RGB-gradient extraction, (2)
\* rgb-net backward, (3) direction-encoder backward, (4) uv-slice scaling then
\* uv-net backward, (5) density-channel extraction then density-net backward,
\* (6) the summation, (7) position-encoder backward, in that order, each after
\* the steps that produce what it reads.
C13_DocumentedOrder ==
    last.op = "backward" =>
        /\ ProducersFirst(last.stream)
        /\ Precedes(last.stream, "rgb_network.backward", "dir_encoding.backward")
        /\ Precedes(last.stream, "dir_encoding.backward", "scale_gradient")
        /\ Precedes(last.stream, "uv_network.backward", "add_density_gradient")
        /\ Precedes(last.stream, "density_network.backward", "add_gradient")

\* C13, amended: the steps are enqueued in the order (1), (2), (3), (5), (4),
\* (6), (7): density-channel extraction and density-net backward come before
\* the uv-slice scaling and uv-net backward, and every step comes after the
\* steps that produce what it reads.
C13_EnqueuedOrder ==
    last.op = "backward" =>
        /\ ProducersFirst(last.stream)
        /\ Precedes(last.stream, "rgb_network.backward", "dir_encoding.backward")
        /\ Precedes(last.stream, "dir_encoding.backward", "add_density_gradient")
        /\ Precedes(last.stream, "density_network.backward", "scale_gradient")
        /\ Precedes(last.stream, "uv_network.backward", "add_gradient")

\* a backward call that enqueued all seven steps
C13_Witness ==
    /\ last.op = "backward"
    /\ {"dir_encoding.backward", "add_gradient", "pos_encoding.backward"}
           \subseteq Entries(last.stream)
    /\ last.n = MaxBatch

\* C14: the output gradient backward_impl passes to rgb-net backward holds
\* dL_doutput[i][c] for every sample i and channel c in 0..2 and zero in every
\* padded channel, and the one it passes to density-net backward holds
\* dL_doutput[i][3] in channel 0 of sample i and zero in every other channel,
\* whichever layout the dL_doutput matrix declares.
C14_GradientExtraction ==
    last.op = "backward" =>
        \A i \in 0 .. last.n - 1 :
            /\ \A c \in 0 .. m_rgb_network.padded_output_width - 1 :
                  last.dL_drgb[Idx("AoS", m_rgb_network.padded_output_width,
                                   last.n, c, i)] =
                      IF c < 3 THEN DLoss(last.kind, last.junk, i, c) ELSE 0
            /\ \A c \in 0 .. m_density_network.padded_output_width - 1 :
                  last.dL_ddensity_network_output[
                      Idx(DefaultLayout, m_density_network.padded_output_width,
                          last.n, c, i)] =
                      IF c = 0 THEN DLoss(last.kind, last.junk, i, 3) ELSE 0

-----------------------------------------------------------------------------
(* Further claims about the texture path *)

\* C15: the grid a uv2texture call on a batch of N copies into its packed
\* buffer was generated for N (the call generated it if no earlier call had
\* that batch size): it has exactly N (u, v) pairs, and the copy writes only
\* rows dir_padded and dir_padded + 1 of the call's N-sample packed buffer.
C15_GridPerBatchSize ==
    last.op = "uv2texture" =>
        /\ Cardinality(DOMAIN last.copied) = 2 * last.n
        /\ last.generated \/ m_uv_grid.n = last.n
        /\ \A k \in DOMAIN last.copied :
              /\ last.copy_offset + k < m_rgb_network_input_width * last.n
              /\ RowOf(m_dir_encoding.preferred_output_layout,
                       m_rgb_network_input_width, last.n, last.copy_offset + k)
                     \in {m_dir_encoding.padded_output_width,
                          m_dir_encoding.padded_output_width + 1}

\* C16: the grid uv2texture generates for texture size S and batch size N
\* holds u_i = (i mod S) / S and v_i = (i div S) / S for every i < N, and both
\* lie in [0, 1).
C16_GridNormalized ==
    (last.op = "uv2texture" /\ last.generated) =>
        \A i \in 0 .. last.n - 1 :
            /\ m_uv_grid.data[i] = Quotient(i % last.texture_size, last.texture_size)
            /\ m_uv_grid.data[last.n + i] =
                   Quotient(i \div last.texture_size, last.texture_size)
            /\ m_uv_grid.data[i] >= 0
            /\ m_uv_grid.data[i] < GridUnit
            /\ m_uv_grid.data[last.n + i] >= 0
            /\ m_uv_grid.data[last.n + i] < GridUnit

-----------------------------------------------------------------------------
(* uv2texture called from concurrent threads, statement by statement *)

\* the largest number of uv2texture calls the threads make
MaxCalls == 3

\* the positions of a thread inside the function
InCall == {"test", "generate", "copy"}

\* thread t calls uv2texture: the direction is repeated and encoded into the
\* call's own packed buffer
Uv2TextureCall(t) ==
    /\ calls.thread[t].pc = "idle"
    /\ calls.started < MaxCalls
    /\ \E batch_size \in 1 .. MaxBatch, texture_size \in 1 .. MaxTex :
          calls' = [calls EXCEPT
                       !.thread[t] =
                           [pc |-> "test", n |-> batch_size,
                            texture_size |-> texture_size, generated |-> FALSE,
                            stream |-> <<"repeat_vec", "dir_encoding.inference">>],
                       !.started = @ + 1,
                       !.overlapped =
                           @ \/ \E o \in Threads \ {t} : calls.thread[o].pc \in InCall]
    /\ UNCHANGED <<members, m_uv_network_scale, m_uv_grid, prm, last>>

\* if (!m_uv_grid.data())
Uv2TextureTest(t) ==
    /\ calls.thread[t].pc = "test"
    /\ calls' = [calls EXCEPT
                    !.thread[t].pc =
                        IF uv_grid_missing(calls.thread[t].n)
                        THEN "generate" ELSE "copy"]
    /\ UNCHANGED <<members, m_uv_network_scale, m_uv_grid, prm, last>>

\* m_uv_grid = GPUMatrixDynamic{2, batch_size, ...}; generate_uv_grid: the
\* assignment releases the storage m_uv_grid held
Uv2TextureGenerate(t) ==
    /\ calls.thread[t].pc = "generate"
    /\ \E junk \in Uninit :
          m_uv_grid' =
              [alloc |-> TRUE, n |-> calls.thread[t].n,
               data |-> generate_uv_grid(calls.thread[t].n,
                                         calls.thread[t].texture_size,
                                         Alloc(2, calls.thread[t].n, junk))]
    /\ calls' = [calls EXCEPT
                    !.thread[t].pc = "copy",
                    !.thread[t].generated = TRUE,
                    !.thread[t].stream = Append(@, "generate_uv_grid"),
                    !.generations = @ + 1]
    /\ UNCHANGED <<members, m_uv_network_scale, prm, last>>

\* cudaMemcpyAsync from m_uv_grid.data() is enqueued, then the zero fill and
\* the rgb-net; the function returns with the work pending on the stream.
\* src is the generation of the grid whose storage the copy will read.
Uv2TextureCopy(t) ==
    /\ calls.thread[t].pc = "copy"
    /\ calls' = [calls EXCEPT
                    !.thread[t] =
                        [pc |-> "pending", src |-> calls.generations,
                         src_data |-> m_uv_grid.data,
                         stream |-> calls.thread[t].stream
                                        \o <<"memcpy m_uv_grid",
                                             "fill_unused_rgb_input",
                                             "rgb_network.inference">>]
                        @@ calls.thread[t]]
    /\ UNCHANGED <<members, m_uv_network_scale, m_uv_grid, prm, last>>

\* the stream of thread t executes the copy: storage that was released since
\* the copy was enqueued holds the grid it held, or whatever it was reused for
Uv2TextureExecute(t) ==
    /\ calls.thread[t].pc = "pending"
    /\ \E copied \in
            {calls.thread[t].src_data}
                \cup (IF calls.thread[t].src = calls.generations THEN {}
                      ELSE { [k \in DOMAIN calls.thread[t].src_data |-> junk] :
                                 junk \in Uninit }) :
          calls' = [calls EXCEPT
                       !.thread[t] =
                           [pc |-> "idle", copied |-> copied,
                            stale |-> calls.thread[t].src # calls.generations]
                           @@ calls.thread[t]]
    /\ UNCHANGED <<members, m_uv_network_scale, m_uv_grid, prm, last>>

InitRace == \E cfg \in TextureConfigs, scale0 \in {1} : NerfNetwork(cfg, scale0)

NextRace ==
    \E t \in Threads :
        \/ Uv2TextureCall(t)
        \/ Uv2TextureTest(t)
        \/ Uv2TextureGenerate(t)
        \/ Uv2TextureCopy(t)
        \/ Uv2TextureExecute(t)

SpecRace == InitRace /\ [][NextRace]_vars

\* the copy of thread t reads, or has read, storage that m_uv_grid no longer
\* holds
ReadsReleased(t) ==
    \/ calls.thread[t].pc = "pending" /\ calls.thread[t].src # calls.generations
    \/ calls.thread[t].pc = "idle" /\ "stale" \in DOMAIN calls.thread[t]
           /\ calls.thread[t].stale

\* C17: first use of the grid cache is unguarded.  While the calls are
\* serialized the grid is allocated and generated exactly once: m_uv_grid is
\* assigned at most once, it is assigned as soon as one call has passed the
\* test, and no copy reads released storage.  Only calls that overlap can
\* assign it again, one per thread that saw it empty, and only then can a
\* pending copy read storage that another call's grid has replaced.
C17_FirstUseRace ==
    /\ m_uv_grid.alloc = (calls.generations >= 1)
    /\ calls.generations <= Cardinality(Threads)
    /\ ~calls.overlapped =>
          /\ calls.generations <= 1
          /\ \A t \in Threads :
                (calls.thread[t].pc \in {"copy", "pending"}
                     \/ "copied" \in DOMAIN calls.thread[t])
                    => calls.generations = 1
          /\ \A t \in Threads : ~ReadsReleased(t)
    /\ \A t \in Threads :
          ReadsReleased(t) => calls.overlapped /\ calls.generations >= 2

\* two overlapping calls both found the cache empty and both generated the
\* grid, and the copy one of them enqueued is still pending on storage the
\* other's grid has replaced
C17_Witness ==
    /\ calls.generations = 2
    /\ \A t \in Threads :
          "generated" \in DOMAIN calls.thread[t] /\ calls.thread[t].generated
    /\ \E t \in Threads :
          calls.thread[t].pc = "pending" /\ calls.thread[t].src = 1

-----------------------------------------------------------------------------
(* The uv gradient scale *)

\* the values the constructor gives m_uv_network_scale: the member has no
\* default initialiser and the constructor does not assign it
ConstructorDefaults == {}

\* C18: the scale backward_impl multiplies into the uv slice is a default the
\* constructor established or the value last passed to set_uv_network_scale,
\* and uv_network_scale() returns the same value.
C18_ScaleDefined ==
    /\ last.op = "backward" =>
          /\ last.scale \in ConstructorDefaults \cup (1 .. MaxScale)
          /\ last.scale = uv_network_scale
    /\ last.op = "set_uv_network_scale" => uv_network_scale = last.scale

=============================================================================
